---- MODULE Spec2Model ----
(***************************************************************************)
(* A model of mycal-tucker/transformers' counterfactual pipeline:          *)
(*   src/src/transformers/utils/gen_xfactuals.py   (gen_counterfactual)    *)
(*   src/examples/pytorch/language-modeling/train_clm_with_xfacts.py       *)
(*                                                                         *)
(* Losses are fixed-point numbers in thousandths: 1 is 0.001, 10 is 0.01,  *)
(* 100000 is 100.  A tensor is an entry of a heap: identity (its name) is  *)
(* kept apart from its value, and the value is abstracted to the number of *)
(* optimizer steps that have been applied to it.                           *)
(***************************************************************************)
EXTENDS Integers, Sequences, FiniteSets, TLC

VARIABLES
    \* ---- the heap of tensors
    val,            \* tensor name -> number of optimizer steps applied to it
    grad,           \* tensor name -> number of backward passes accumulated in .grad
    probe_training, \* the probe module's training flag (probe.eval() clears it)
    probe_losses,   \* the losses criterion(probe(z_prime), s_prime) may return
    \* ---- the frame of gen_counterfactual
    spc,            \* "idle" | "loop" | "done"
    z,              \* the tensor passed in
    s_prime,        \* the target label
    z_prime,        \* the local alias of line 7
    opt_params,     \* the tensors the SGD optimizer of line 11 was given
    num_steps, loss, min_loss, curr_patience,
    max_patience, max_num_steps,
    ret,            \* the tensor returned (line 41), "none" before
    \* ---- a call of group_texts
    gt_examples,    \* the batch: column name -> list of token lists
    gt_block_size,  \* the block_size the closure was made with
    gt_result,      \* what the call returned
    gt_pc,          \* "ready" | "done"
    \* ---- main and the parsed arguments
    pc,             \* the statement of main that runs next (or is running)
    iteration,      \* the loop variable of line 750
    lm_mode,        \* probed_model.lm_mode
    eval_only, batch_size, gas, num_train_epochs, max_train_steps,
    probe_n,        \* examples in the probe dataset's train split
    lm_n,           \* blocks in the language-modelling train split
    seq_len,        \* tokens per probe example
    xfact_dataset,  \* main's local of line 762
    \* ---- the frame of train_with_prepped_dataset
    t_pc,           \* "idle" | "batch" | "eval" | "done"
    t_len,          \* len(train_dataloader)
    epoch, step, completed_steps,
    \* ---- the frame of _gen_xfacts
    b_pc,           \* "idle" | "batch" | "call" | "search" | "stack" | "done" | "failed"
    b_step,         \* the step of line 557
    b_hidden,       \* hidden_states of line 561: the tensor's name
    targ_s,         \* the loop variable of line 563
    b_completed,    \* completed_steps of line 552
    cached_input_ids, cached_z_primes,
    b_result,       \* the dataset returned (line 589)
    \* ---- the frame of _xfact_training
    x_pc,           \* "idle" | "loop" | "done"
    x_epoch, x_step,
    x_opt_steps,    \* the optimizer.step() calls of line 613 made so far
    \* ---- the block size of _train_lm
    args_block_size,   \* --block_size (NONE when not given)
    model_max_length,  \* tokenizer.model_max_length
    block_size,        \* the local of lines 322-336
    bs_pc,             \* "ready" | "done"
    \* ---- the frame of _measure_ppl
    m_pc,           \* "idle" | "match" | "surprisal" | "done" | "assert_failed" | "index_error"
    m_words,        \* the lines of surprisal_tokens.txt
    m_sentences,    \* encodings['input_ids']
    m_k,            \* the pair (line 638) or sentence (line 649) that is next
    special_idxs,
    nlls

search_vars == <<spc, z, s_prime, z_prime, opt_params, num_steps, loss, min_loss,
                 curr_patience, max_patience, max_num_steps, ret>>
heap_vars == <<val, grad, probe_training, probe_losses>>
group_vars == <<gt_examples, gt_block_size, gt_result, gt_pc>>
cfg_vars == <<eval_only, batch_size, gas, probe_n, lm_n, seq_len>>
steps_vars == <<num_train_epochs, max_train_steps>>
main_vars == <<pc, iteration, lm_mode, xfact_dataset>>
train_vars == <<t_pc, t_len, epoch, step, completed_steps>>
build_vars == <<b_pc, b_step, b_hidden, targ_s, b_completed, cached_input_ids,
                cached_z_primes, b_result>>
xfact_vars == <<x_pc, x_epoch, x_step, x_opt_steps>>
pipeline_vars == <<cfg_vars, steps_vars, main_vars, train_vars, build_vars, xfact_vars>>
block_vars == <<args_block_size, model_max_length, block_size, bs_pc>>
ppl_vars == <<m_pc, m_words, m_sentences, m_k, special_idxs, nlls>>
aux_vars == <<block_vars, ppl_vars>>
vars == <<heap_vars, search_vars, group_vars, pipeline_vars, aux_vars>>

\* ------------------------------------------------------------------ constants
\* gen_xfactuals.py:16  stopping_loss = 0.001
stopping_loss == 1
\* gen_xfactuals.py:18  loss = 100
INITIAL_LOSS == 100000
\* gen_xfactuals.py:19  max_patience = 10000
MAX_PATIENCE == 10000
\* gen_xfactuals.py:20  max_num_steps = 100
MAX_NUM_STEPS == 100
\* gen_xfactuals.py:34  the 0.01 of `loss < min_loss - 0.01`
PATIENCE_DELTA == 10

\* The limits a configurable search is tried with go up to these.
MaxCfgSteps == 4
MaxCfgPatience == 3

\* The probe dataset's train split holds up to MaxExamples examples, of
\* MinSeqLen (the 3 < len of line 526) to MaxSeqLen tokens.
MaxExamples == 2
MaxSeqLen == 4

\* Loss values around every threshold of the loop: at and next to stopping_loss,
\* 0.01 and 0.011 apart, and at, just below and above the initial 100.
LossValues == {0, 1, 2, 12, 13, 99989, 99990, 100010}

NumLabels == 3
Labels == 0 .. (NumLabels - 1)

\* The tensors of the heap: the parameters of the composite model, and the
\* hidden_states tensor line 561 makes for each batch of _gen_xfacts.
PROBE_W == "classifier.classifier"
LM_BODY == "lm.transformer"
LM_HEAD_W == "lm.lm_head"
Params == {PROBE_W, LM_BODY, LM_HEAD_W}
HiddenName(k) == "hidden_states_" \o ToString(k)
HIDDEN == HiddenName(1)
Tensors == Params \cup {HiddenName(k) : k \in 1 .. MaxExamples}

Min(a, b) == IF a < b THEN a ELSE b

\* ------------------------------------------------------- gen_counterfactual
\* line 11: optim.SGD([z_prime], ...)
SGDParamsWithProbe(zp) == {zp, PROBE_W}
SGDParams(zp) == {zp}

\* line 24: while num_steps < max_num_steps and loss > stopping_loss
LoopCondOffByOne(n, l, maxn) == n <= maxn /\ l > stopping_loss
LoopCondNoStop(n, l, maxn) == n < maxn
LoopCond(n, l, maxn) == n < maxn /\ l > stopping_loss

\* line 34: if loss < min_loss - 0.01
ImprovedAtLeast(l, m) == l <= m - PATIENCE_DELTA
Improved(l, m) == l < m - PATIENCE_DELTA

\* line 37: if curr_patience > max_patience
PatienceOverAtLeast(p, maxp) == p >= maxp
PatienceOver(p, maxp) == p > maxp

\* optimizer.zero_grad(): clears the .grad of the optimizer's tensors only
ZeroGrad(g, params) == [t \in Tensors |-> IF t \in params THEN 0 ELSE g[t]]

\* loss.backward(): accumulates into the .grad of every leaf of the graph
Backward(g, leaves) == [t \in Tensors |-> IF t \in leaves THEN g[t] + 1 ELSE g[t]]

\* optimizer.step(): updates in place the optimizer's tensors that hold a gradient
OptimizerStep(v, g, params) ==
    [t \in Tensors |-> IF t \in params /\ g[t] > 0 THEN v[t] + 1 ELSE v[t]]

\* lines 8, 26-28: the leaves of criterion(probe(z_prime), s_prime) that require
\* grad are z_prime and the probe's parameters
SearchLeaves(zp) == {zp, PROBE_W}

\* lines 6-23: the call, up to the loop
Enter(zz, sp, maxp, maxn) ==
    /\ spc = "idle"
    /\ z' = zz
    /\ s_prime' = sp
    /\ z_prime' = zz
    /\ opt_params' = SGDParams(zz)
    /\ num_steps' = 0
    /\ loss' = INITIAL_LOSS
    /\ max_patience' = maxp
    /\ max_num_steps' = maxn
    /\ curr_patience' = 0
    /\ min_loss' = INITIAL_LOSS
    /\ probe_training' = FALSE
    /\ spc' = "loop"
    /\ ret' = "none"
    /\ UNCHANGED <<val, grad, probe_losses>>

\* lines 24-39: one iteration of the loop; a break goes on to lines 40-41
SearchStep ==
    /\ spc = "loop"
    /\ LoopCond(num_steps, loss, max_num_steps)
    /\ \E l \in probe_losses :
        LET improved == Improved(l, min_loss)
            patience == IF improved THEN 0 ELSE curr_patience + 1
            g == Backward(ZeroGrad(grad, opt_params), SearchLeaves(z_prime))
        IN  /\ grad' = g
            /\ val' = OptimizerStep(val, g, opt_params)
            /\ loss' = l
            /\ num_steps' = num_steps + 1
            /\ min_loss' = IF improved THEN l ELSE min_loss
            /\ curr_patience' = patience
            /\ IF PatienceOver(patience, max_patience)
               THEN spc' = "done" /\ ret' = z_prime
               ELSE spc' = "loop" /\ ret' = ret
    /\ UNCHANGED <<z, s_prime, z_prime, opt_params, max_patience, max_num_steps,
                   probe_training, probe_losses>>

\* lines 24, 40-41: the loop condition fails; return z_prime
SearchReturn ==
    /\ spc = "loop"
    /\ ~LoopCond(num_steps, loss, max_num_steps)
    /\ spc' = "done"
    /\ ret' = z_prime
    /\ UNCHANGED <<heap_vars, z, s_prime, z_prime, opt_params, num_steps, loss,
                   min_loss, curr_patience, max_patience, max_num_steps>>

\* ------------------------------------------------ one call, any probe (Spec)
HeapInit ==
    /\ val = [t \in Tensors |-> 0]
    /\ grad = [t \in Tensors |-> 0]
    /\ probe_training \in BOOLEAN

FrameInit ==
    /\ spc = "idle"
    /\ z = "none" /\ z_prime = "none" /\ ret = "none"
    /\ s_prime = 0
    /\ opt_params = {}
    /\ num_steps = 0 /\ loss = 0 /\ min_loss = 0 /\ curr_patience = 0
    /\ max_patience = 0 /\ max_num_steps = 0

\* A TensorDataset: the iteration of main that built it, and its rows.
NoDataset == [iteration |-> -1, pairs |-> <<>>]

\* main has not started: what the specifications of one function hold fixed
PipelineIdle ==
    /\ pc = "idle" /\ iteration = 0 /\ lm_mode = FALSE /\ xfact_dataset = NoDataset
    /\ eval_only = FALSE /\ batch_size = 1 /\ gas = 1 /\ num_train_epochs = 1
    /\ max_train_steps = 1 /\ probe_n = 1 /\ lm_n = 1 /\ seq_len = 4
    /\ t_pc = "idle" /\ t_len = 0 /\ epoch = 0 /\ step = 0 /\ completed_steps = 0
    /\ b_pc = "idle" /\ b_step = 0 /\ b_hidden = "none" /\ targ_s = 0
    /\ b_completed = 0 /\ cached_input_ids = <<>> /\ cached_z_primes = <<>>
    /\ b_result = NoDataset
    /\ x_pc = "idle" /\ x_epoch = 0 /\ x_step = 0 /\ x_opt_steps = 0

GroupIdle ==
    /\ gt_examples = <<>> /\ gt_block_size = 0 /\ gt_result = <<>> /\ gt_pc = "done"

\* _train_lm and _measure_ppl have not been called
AuxIdle ==
    /\ args_block_size = 0 /\ model_max_length = 0 /\ block_size = 0 /\ bs_pc = "done"
    /\ m_pc = "idle" /\ m_words = <<>> /\ m_sentences = <<>> /\ m_k = 0
    /\ special_idxs = <<>> /\ nlls = <<>>

Init ==
    /\ HeapInit
    /\ FrameInit
    /\ GroupIdle
    /\ PipelineIdle
    /\ AuxIdle
    /\ probe_losses = LossValues

\* gen_counterfactual(hidden_states, probe, s_prime) with the limits of lines 19-20
Call == \E sp \in Labels : Enter(HIDDEN, sp, MAX_PATIENCE, MAX_NUM_STEPS)

Next ==
    (Call \/ SearchStep \/ SearchReturn) /\ UNCHANGED <<group_vars, pipeline_vars, aux_vars>>

Spec == Init /\ [][Next]_vars

\* ------------------------- one call, constant probe, open limits (SpecCfg)
\* The loop of lines 24-39 with the two limits of lines 19-20 left open, as a
\* test of the patience branch has to set them; the pair the code uses is kept.
CfgLimits ==
    ((0 .. MaxCfgSteps) \X (0 .. MaxCfgPatience)) \cup {<<MAX_NUM_STEPS, MAX_PATIENCE>>}

InitCfg ==
    /\ HeapInit
    /\ FrameInit
    /\ GroupIdle
    /\ PipelineIdle
    /\ AuxIdle
    /\ \E c \in LossValues : probe_losses = {c}

CallCfg ==
    \E sp \in Labels, lim \in CfgLimits : Enter(HIDDEN, sp, lim[2], lim[1])

NextCfg ==
    (CallCfg \/ SearchStep \/ SearchReturn) /\ UNCHANGED <<group_vars, pipeline_vars, aux_vars>>

SpecCfg == InitCfg /\ [][NextCfg]_vars

\* ----------------------------------------------------------------- group_texts
\* The batches group_texts is tried on: up to MaxTexts texts of up to
\* MaxTextLen tokens each, cut into blocks of up to MaxBlockSize.
MaxTexts == 2
MaxTextLen == 3
MaxBlockSize == 3
MaxSuite == 2
Tokens == {7, 8}

\* line 287: list(chain(*examples[k]))
RECURSIVE Chain(_)
Chain(lists) == IF lists = <<>> THEN <<>> ELSE Head(lists) \o Chain(Tail(lists))

\* t[i: j] for 0 <= i <= j: Python clips the slice to the list
Slice(t, i, j) == SubSeq(t, i + 1, Min(j, Len(t)))

\* lines 291-292: the length the chunks are cut from
TotalLengthAlwaysFloor(total, bs) == (total \div bs) * bs
TotalLength(total, bs) == IF total >= bs THEN (total \div bs) * bs ELSE total

\* range(0, total_length, block_size) as the list of its values
BlockStarts(total, bs) ==
    [n \in 1 .. ((total + bs - 1) \div bs) |-> (n - 1) * bs]

\* lines 294-297 for one column
Chunks(t, total, bs) ==
    LET starts == BlockStarts(total, bs)
    IN  [n \in 1 .. Len(starts) |-> Slice(t, starts[n], starts[n] + bs)]

\* lines 285-299
group_texts(examples, bs) ==
    LET concatenated == [k \in DOMAIN examples |-> Chain(examples[k])]
        total == TotalLength(Len(concatenated["input_ids"]), bs)
        result == [k \in DOMAIN examples |-> Chunks(concatenated[k], total, bs)]
    IN  [k \in DOMAIN examples \cup {"labels"} |->
            IF k = "labels" THEN result["input_ids"] ELSE result[k]]

TokenLists == UNION {[1 .. n -> Tokens] : n \in 0 .. MaxTextLen}
TextBatches == UNION {[1 .. n -> TokenLists] : n \in 0 .. MaxTexts}

\* the tokenizer's two columns: input_ids, and an attention_mask of ones
Tokenized(texts) ==
    [k \in {"input_ids", "attention_mask"} |->
        IF k = "input_ids" THEN texts
        ELSE [n \in 1 .. Len(texts) |-> [i \in 1 .. Len(texts[n]) |-> 1]]]

InitGroup ==
    /\ HeapInit /\ probe_losses = LossValues
    /\ FrameInit
    /\ PipelineIdle
    /\ AuxIdle
    /\ \E texts \in TextBatches : gt_examples = Tokenized(texts)
    /\ gt_block_size \in 1 .. MaxBlockSize
    /\ gt_result = <<>>
    /\ gt_pc = "ready"

\* datasets.map(get_group_text_fn(block_size), batched=True) on one batch
GroupTextsCall ==
    /\ gt_pc = "ready"
    /\ gt_result' = group_texts(gt_examples, gt_block_size)
    /\ gt_pc' = "done"
    /\ UNCHANGED <<gt_examples, gt_block_size>>

NextGroup ==
    GroupTextsCall /\ UNCHANGED <<heap_vars, search_vars, pipeline_vars, aux_vars>>

SpecGroup == InitGroup /\ [][NextGroup]_vars

\* ==================================================================== pipeline
\* train_clm_with_xfacts.py:159  --max_train_steps, default=None
NONE == -1
\* line 603: for epoch in range(3)
XFACT_EPOCHS == 3
\* line 750: for iteration in range(2)
NUM_ITERATIONS == 2
\* line 526: 3 < len(batch['input_ids'])
MinSeqLen == 4

BatchSizes == {1, 2}
GasValues == {1, 2}
EpochValues == {1, 2}
MaxTrainStepsValues == {NONE, 1, 2, 5}
\* the probes of the whole run: one that is at the target at once, one that never is
PipelineProbes == {{0}, {2}}

CeilDiv(a, b) == (a + b - 1) \div b

\* --------------------------------------------- train_with_prepped_dataset
\* The leaves a training batch's loss reaches: the forward pass of the composite
\* model returns the language-modelling loss in lm_mode and the probe's
\* classification loss otherwise, both over the shared transformer.
ForwardLeaves(mode) == IF mode THEN {LM_BODY, LM_HEAD_W} ELSE {LM_BODY, PROBE_W}

\* lines 410-421: AdamW over probed_model.named_parameters()
TrainerParams == Params

\* line 470: the micro-batches after which the optimizer steps
StepsNow(st, n) == st % gas = 0 \/ st = n - 1

\* lines 400-460, called on a train split of n examples
TrainEnter(n) ==
    LET len == CeilDiv(n, batch_size)
        num_update_steps_per_epoch == CeilDiv(len, gas)
    IN  /\ t_pc = "idle"
        /\ t_len' = len
        /\ IF max_train_steps = NONE
           THEN /\ max_train_steps' = num_train_epochs * num_update_steps_per_epoch
                /\ num_train_epochs' = num_train_epochs
           ELSE /\ num_train_epochs' = CeilDiv(max_train_steps, num_update_steps_per_epoch)
                /\ max_train_steps' = max_train_steps
        /\ completed_steps' = 0
        /\ epoch' = 0
        /\ step' = 0
        /\ t_pc' = "batch"

\* lines 463-478: one micro-batch of the training loop (eval_only is false here:
\* main returns at line 748 before any training when it is set)
TrainBatch ==
    /\ t_pc = "batch"
    /\ LET g == Backward(grad, ForwardLeaves(lm_mode))
           now == StepsNow(step, t_len)
           c == IF now THEN completed_steps + 1 ELSE completed_steps
       IN  /\ grad' = IF now THEN ZeroGrad(g, TrainerParams) ELSE g
           /\ val' = IF now THEN OptimizerStep(val, g, TrainerParams) ELSE val
           /\ completed_steps' = c
           /\ IF c >= max_train_steps \/ step = t_len - 1
              THEN t_pc' = "eval" /\ step' = step
              ELSE t_pc' = "batch" /\ step' = step + 1
    /\ probe_training' = TRUE
    /\ UNCHANGED <<probe_losses, t_len, epoch, search_vars, group_vars, cfg_vars,
                   steps_vars, main_vars, build_vars, xfact_vars>>

\* lines 480-504: the evaluation that ends an epoch
TrainEval ==
    /\ t_pc = "eval"
    /\ probe_training' = FALSE
    /\ epoch' = epoch + 1
    /\ IF epoch + 1 < num_train_epochs
       THEN t_pc' = "batch" /\ step' = 0
       ELSE t_pc' = "done" /\ step' = step
    /\ UNCHANGED <<val, grad, probe_losses, t_len, completed_steps, search_vars,
                   group_vars, cfg_vars, steps_vars, main_vars, build_vars, xfact_vars>>

\* ------------------------------------------------------------------ _gen_xfacts
\* lines 543-545: the examples of the batch the dataloader gives at a step
BatchExamples(st) ==
    [k \in 1 .. (IF (st + 1) * batch_size <= probe_n
                 THEN batch_size ELSE probe_n - st * batch_size) |-> st * batch_size + k]

\* A row of a tensor is <<example, position>>; position 0 stands for the whole
\* example, a row of a tensor that still has its batch dimension.
\* lines 569-570: torch.squeeze(z_prime, dim=0)[:-1, :]: squeeze drops the
\* batch dimension only when it is 1, and the slice cuts the first dimension left
ShiftedZ(batch) ==
    IF Len(batch) = 1
    THEN [i \in 1 .. (seq_len - 1) |-> <<batch[1], i>>]
    ELSE [b \in 1 .. (Len(batch) - 1) |-> <<batch[b], 0>>]

\* lines 571-572: batch['input_ids'].view((-1, 1))[1:, ...]
ShiftedLabels(batch) ==
    Tail([r \in 1 .. (Len(batch) * seq_len) |->
            <<batch[((r - 1) \div seq_len) + 1], ((r - 1) % seq_len) + 1>>])

\* lines 552-556
GenXfactsEnter ==
    /\ b_pc = "idle"
    /\ b_completed' = 0
    /\ probe_training' = TRUE
    /\ cached_input_ids' = <<>>
    /\ cached_z_primes' = <<>>
    /\ b_step' = 0
    /\ b_pc' = "batch"
    /\ UNCHANGED <<b_hidden, targ_s, b_result>>

\* lines 557-563: the next batch's forward pass, or the end of the dataloader
BuilderBatch ==
    /\ b_pc = "batch"
    /\ IF b_step < CeilDiv(probe_n, batch_size)
       THEN /\ b_hidden' = HiddenName(b_step + 1)
            /\ val' = [val EXCEPT ![HiddenName(b_step + 1)] = 0]
            /\ grad' = [grad EXCEPT ![HiddenName(b_step + 1)] = 0]
            /\ targ_s' = 0
            /\ b_pc' = "call"
       ELSE /\ b_pc' = "stack"
            /\ UNCHANGED <<b_hidden, val, grad, targ_s>>
    /\ UNCHANGED <<probe_training, probe_losses, b_step, b_completed, cached_input_ids,
                   cached_z_primes, b_result, search_vars, group_vars, cfg_vars,
                   steps_vars, main_vars, train_vars, xfact_vars>>

\* lines 564-565: gen_counterfactual(hidden_states, probe, s_prime)
BuilderCall ==
    /\ b_pc = "call"
    /\ Enter(b_hidden, targ_s, MAX_PATIENCE, MAX_NUM_STEPS)
    /\ b_pc' = "search"
    /\ UNCHANGED <<b_step, b_hidden, targ_s, b_completed, cached_input_ids,
                   cached_z_primes, b_result, group_vars, cfg_vars, steps_vars,
                   main_vars, train_vars, xfact_vars>>

\* lines 582-585: the count of searches that ends both loops
BuilderStopsLate(c, maxc) == c > maxc
BuilderStops(c, maxc) == c >= maxc

\* lines 565-585: the search has returned; cache its rows and the labels, count
BuilderAppend ==
    /\ b_pc = "search"
    /\ spc = "done"
    /\ spc' = "idle"
    /\ LET batch == BatchExamples(b_step)
           c == b_completed + 1
       IN  /\ cached_input_ids' = Append(cached_input_ids, ShiftedLabels(batch))
           /\ cached_z_primes' = Append(cached_z_primes,
                  [tensor |-> ret, target |-> targ_s, dims |-> IF Len(batch) = 1 THEN 2 ELSE 3,
                   rows |-> ShiftedZ(batch)])
           /\ b_completed' = c
           /\ IF BuilderStops(c, max_train_steps)
              THEN b_pc' = "stack" /\ UNCHANGED <<targ_s, b_step>>
              ELSE IF targ_s + 1 < NumLabels
                   THEN b_pc' = "call" /\ targ_s' = targ_s + 1 /\ b_step' = b_step
                   ELSE b_pc' = "batch" /\ targ_s' = targ_s /\ b_step' = b_step + 1
    /\ UNCHANGED <<heap_vars, z, s_prime, z_prime, opt_params, num_steps, loss, min_loss,
                   curr_patience, max_patience, max_num_steps, ret, b_hidden, b_result,
                   group_vars, cfg_vars, steps_vars, main_vars, train_vars, xfact_vars>>

\* torch.vstack needs tensors of one rank; TensorDataset asserts that its
\* tensors have the same first dimension
StackOk(zs, ids) ==
    /\ \A j \in 1 .. Len(zs) : zs[j].dims = zs[1].dims
    /\ Len(Chain([j \in 1 .. Len(zs) |-> zs[j].rows])) = Len(Chain(ids))

\* lines 586-588: the rows of the dataset, one per row of the stacked tensors
Stacked(zs, ids) ==
    LET tensors == Chain([j \in 1 .. Len(zs) |-> [r \in 1 .. Len(zs[j].rows) |-> zs[j].tensor]])
        targets == Chain([j \in 1 .. Len(zs) |-> [r \in 1 .. Len(zs[j].rows) |-> zs[j].target]])
        rows == Chain([j \in 1 .. Len(zs) |-> zs[j].rows])
        labels == Chain(ids)
    IN  [r \in 1 .. Len(rows) |->
            [tensor |-> tensors[r], target |-> targets[r], z |-> rows[r], label |-> labels[r]]]

\* lines 586-589
BuilderStack ==
    /\ b_pc = "stack"
    /\ IF StackOk(cached_z_primes, cached_input_ids)
       THEN /\ b_result' = [iteration |-> iteration,
                            pairs |-> Stacked(cached_z_primes, cached_input_ids)]
            /\ b_pc' = "done"
       ELSE /\ b_result' = b_result
            /\ b_pc' = "failed"
    /\ UNCHANGED <<heap_vars, search_vars, b_step, b_hidden, targ_s, b_completed,
                   cached_input_ids, cached_z_primes, group_vars, cfg_vars, steps_vars,
                   main_vars, train_vars, xfact_vars>>

\* -------------------------------------------------------------- _xfact_training
\* line 596: AdamW(lm_head.parameters(), ...)
HeadOptimizerParamsAll == Params
HeadOptimizerParams == {LM_HEAD_W}

\* lines 594-602
XfactEnter ==
    /\ x_pc = "idle"
    /\ x_epoch' = 0
    /\ x_step' = 0
    /\ x_opt_steps' = 0
    /\ x_pc' = "loop"

\* lines 607-614: one item of the dataset (the DataLoader of line 594 has the
\* default batch_size of 1); the embedding is a view of the searched tensor,
\* which requires grad, so the backward pass reaches that tensor too
XfactStep ==
    /\ x_pc = "loop"
    /\ LET item == xfact_dataset.pairs[x_step + 1]
           g == Backward(grad, {LM_HEAD_W, item.tensor})
           last == x_step + 1 = Len(xfact_dataset.pairs)
       IN  /\ val' = OptimizerStep(val, g, HeadOptimizerParams)
           /\ grad' = ZeroGrad(g, HeadOptimizerParams)
           /\ x_opt_steps' = x_opt_steps + 1
           /\ x_step' = IF last THEN 0 ELSE x_step + 1
           /\ x_epoch' = IF last THEN x_epoch + 1 ELSE x_epoch
           /\ x_pc' = IF last /\ x_epoch + 1 >= XFACT_EPOCHS THEN "done" ELSE "loop"
    /\ UNCHANGED <<probe_training, probe_losses, search_vars, group_vars, cfg_vars,
                   steps_vars, main_vars, train_vars, build_vars>>

\* ------------------------------------------------------------------------ main
\* lines 753, 757, 761: the value each assignment gives probed_model.lm_mode
LmPhaseModeClassifier == FALSE
ProbePhaseMode == FALSE
LmPhaseMode == TRUE
XfactPhaseMode == FALSE

\* lines 743-750
MainStart ==
    /\ pc = "start"
    /\ pc' = IF eval_only THEN "measure_ppl" ELSE "set_mode_probe"
    /\ iteration' = 0
    /\ UNCHANGED <<lm_mode, xfact_dataset, heap_vars, search_vars, group_vars, cfg_vars,
                   steps_vars, train_vars, build_vars, xfact_vars>>

\* lines 744-748 with 618-621: _measure_ppl on each of the two test suites
\* (iteration counts the suites done in an evaluation run)
MeasurePpl ==
    /\ pc = "measure_ppl"
    /\ lm_mode' = TRUE
    /\ probe_training' = FALSE
    /\ iteration' = iteration + 1
    /\ pc' = IF iteration + 1 < 2 THEN "measure_ppl" ELSE "done"
    /\ UNCHANGED <<val, grad, probe_losses, xfact_dataset, search_vars, group_vars,
                   cfg_vars, steps_vars, train_vars, build_vars, xfact_vars>>

\* an assignment to probed_model.lm_mode in main
SetMode(at, value, next) ==
    /\ pc = at
    /\ lm_mode' = value
    /\ pc' = next
    /\ UNCHANGED <<iteration, xfact_dataset, heap_vars, search_vars, group_vars, cfg_vars,
                   steps_vars, train_vars, build_vars, xfact_vars>>

\* line 753
SetModeProbe == SetMode("set_mode_probe", ProbePhaseMode, "train_probe")
\* line 757
SetModeLm == SetMode("set_mode_lm", LmPhaseMode, "train_lm")
\* line 761
SetModeXfacts == SetMode("set_mode_xfacts", XfactPhaseMode, "gen_xfacts")

\* lines 754 and 758: _train_probe and _train_lm get to train_with_prepped_dataset
CallTrainer(at, n) ==
    /\ pc = at
    /\ TrainEnter(n)
    /\ UNCHANGED <<heap_vars, search_vars, group_vars, cfg_vars, main_vars, build_vars,
                   xfact_vars>>

CallTrainProbe == CallTrainer("train_probe", probe_n)
CallTrainLm == CallTrainer("train_lm", lm_n)

\* the trainer returns; main goes on (lines 755-756, 759-760)
ReturnTrainer(at, next) ==
    /\ pc = at
    /\ t_pc = "done"
    /\ t_pc' = "idle"
    /\ pc' = next
    /\ UNCHANGED <<iteration, lm_mode, xfact_dataset, heap_vars, search_vars, group_vars,
                   cfg_vars, steps_vars, t_len, epoch, step, completed_steps, build_vars,
                   xfact_vars>>

ReturnTrainProbe == ReturnTrainer("train_probe", "set_mode_lm")
ReturnTrainLm == ReturnTrainer("train_lm", "set_mode_xfacts")

\* line 762, the call
CallGenXfacts ==
    /\ pc = "gen_xfacts"
    /\ GenXfactsEnter
    /\ UNCHANGED <<val, grad, probe_losses, search_vars, group_vars, cfg_vars, steps_vars,
                   main_vars, train_vars, xfact_vars>>

\* line 762, the assignment of what _gen_xfacts returned (line 763 goes on);
\* an exception at lines 586-588 ends main
ReturnGenXfacts ==
    /\ pc = "gen_xfacts"
    /\ b_pc \in {"done", "failed"}
    /\ b_pc' = "idle"
    /\ IF b_pc = "done"
       THEN xfact_dataset' = b_result /\ pc' = "xfact_training"
       ELSE xfact_dataset' = xfact_dataset /\ pc' = "raised"
    /\ UNCHANGED <<iteration, lm_mode, heap_vars, search_vars, group_vars, cfg_vars,
                   steps_vars, train_vars, b_step, b_hidden, targ_s, b_completed,
                   cached_input_ids, cached_z_primes, b_result, xfact_vars>>

\* line 764, the call
CallXfactTraining ==
    /\ pc = "xfact_training"
    /\ XfactEnter
    /\ UNCHANGED <<heap_vars, search_vars, group_vars, cfg_vars, steps_vars, main_vars,
                   train_vars, build_vars>>

\* line 750: for iteration in range(2), after the body has run with `it`
AfterIterationOneMore(it) == IF it + 1 <= NUM_ITERATIONS THEN "set_mode_probe" ELSE "save"
AfterIteration(it) == IF it + 1 < NUM_ITERATIONS THEN "set_mode_probe" ELSE "save"

\* lines 764-765 and the loop header of line 750
ReturnXfactTraining ==
    /\ pc = "xfact_training"
    /\ x_pc = "done"
    /\ x_pc' = "idle"
    /\ iteration' = iteration + 1
    /\ pc' = AfterIteration(iteration)
    /\ UNCHANGED <<lm_mode, xfact_dataset, heap_vars, search_vars, group_vars, cfg_vars,
                   steps_vars, train_vars, build_vars, x_epoch, x_step, x_opt_steps>>

\* lines 766-772
Save ==
    /\ pc = "save"
    /\ pc' = "done"
    /\ UNCHANGED <<iteration, lm_mode, xfact_dataset, heap_vars, search_vars, group_vars,
                   cfg_vars, steps_vars, train_vars, build_vars, xfact_vars>>

\* the search of gen_counterfactual, run inside _gen_xfacts
BuilderSearch ==
    /\ b_pc = "search"
    /\ (SearchStep \/ SearchReturn)
    /\ UNCHANGED <<group_vars, pipeline_vars>>

InitMain ==
    /\ HeapInit
    /\ FrameInit
    /\ GroupIdle
    /\ AuxIdle
    /\ probe_losses \in PipelineProbes
    /\ pc = "start" /\ iteration = 0 /\ lm_mode \in BOOLEAN /\ xfact_dataset = NoDataset
    /\ eval_only \in BOOLEAN
    /\ batch_size \in BatchSizes
    /\ gas \in GasValues
    /\ num_train_epochs \in EpochValues
    /\ max_train_steps \in MaxTrainStepsValues
    /\ probe_n \in 1 .. MaxExamples
    /\ lm_n \in 1 .. MaxExamples
    /\ seq_len \in MinSeqLen .. MaxSeqLen
    /\ t_pc = "idle" /\ t_len = 0 /\ epoch = 0 /\ step = 0 /\ completed_steps = 0
    /\ b_pc = "idle" /\ b_step = 0 /\ b_hidden = "none" /\ targ_s = 0
    /\ b_completed = 0 /\ cached_input_ids = <<>> /\ cached_z_primes = <<>>
    /\ b_result = NoDataset
    /\ x_pc = "idle" /\ x_epoch = 0 /\ x_step = 0 /\ x_opt_steps = 0

NextMain ==
    /\ UNCHANGED aux_vars
    /\  \/ MainStart
        \/ MeasurePpl
        \/ SetModeProbe
        \/ CallTrainProbe
        \/ ReturnTrainProbe
        \/ SetModeLm
        \/ CallTrainLm
        \/ ReturnTrainLm
        \/ TrainBatch
        \/ TrainEval
        \/ SetModeXfacts
        \/ CallGenXfacts
        \/ BuilderBatch
        \/ BuilderCall
        \/ BuilderSearch
        \/ BuilderAppend
        \/ BuilderStack
        \/ ReturnGenXfacts
        \/ CallXfactTraining
        \/ XfactStep
        \/ ReturnXfactTraining
        \/ Save

SpecMain == InitMain /\ [][NextMain]_vars


\* ===================================================== block size (SpecBlock)
\* train_clm_with_xfacts.py:329  block_size = 1024
LM_BLOCK_CAP == 1024

\* lines 322-336 of _train_lm.  With --block_size absent, line 323 takes the
\* tokenizer's model_max_length, the test of line 324 guards only the warning,
\* and the assignment of line 329 stands at the indentation of that test: it
\* runs whatever the test said.
BlockSizeFor(arg, max_len) ==
    IF arg = NONE
    THEN LET first == max_len
             warned == first > LM_BLOCK_CAP
         IN  LM_BLOCK_CAP
    ELSE Min(arg, max_len)

\* the model_max_length of the tokenizers and the --block_size values tried
ModelMaxLengths == {512} \cup (1020 .. 1028) \cup {2048}
BlockSizeArgs == {NONE, 1, 128, 512, 1023, 1024, 1025, 2048, 4096}

InitBlock ==
    /\ HeapInit /\ probe_losses = LossValues
    /\ FrameInit
    /\ GroupIdle
    /\ PipelineIdle
    /\ m_pc = "idle" /\ m_words = <<>> /\ m_sentences = <<>> /\ m_k = 0
    /\ special_idxs = <<>> /\ nlls = <<>>
    /\ args_block_size \in BlockSizeArgs
    /\ model_max_length \in ModelMaxLengths
    /\ block_size = 0
    /\ bs_pc = "ready"

PickBlockSize ==
    /\ bs_pc = "ready"
    /\ block_size' = BlockSizeFor(args_block_size, model_max_length)
    /\ bs_pc' = "done"
    /\ UNCHANGED <<args_block_size, model_max_length>>

NextBlock ==
    PickBlockSize
        /\ UNCHANGED <<heap_vars, search_vars, group_vars, pipeline_vars, ppl_vars>>

SpecBlock == InitBlock /\ [][NextBlock]_vars

\* ===================================================== _measure_ppl (SpecPpl)
\* Text is a sequence of characters.  str.strip() removes these at both ends.
Whitespace == {" ", "\n"}

RECURSIVE LStrip(_)
LStrip(s) == IF s # <<>> /\ Head(s) \in Whitespace THEN LStrip(Tail(s)) ELSE s

RECURSIVE RStrip(_)
RStrip(s) ==
    IF s # <<>> /\ s[Len(s)] \in Whitespace THEN RStrip(SubSeq(s, 1, Len(s) - 1)) ELSE s

Strip(s) == RStrip(LStrip(s))

\* word.startswith(decoded)
StartsWith(word, decoded) ==
    Len(decoded) <= Len(word) /\ SubSeq(word, 1, Len(decoded)) = decoded

\* the vocabulary: token id -> the text tokenizer.decode gives for it
TokenText == <<  <<"a">>, <<" ", "b">>, <<" ">>  >>
decode(tok) == TokenText[tok]

\* the lines of surprisal_tokens.txt as iterating the file yields them
TargetWords == {<<"a", "\n">>, <<"b", "a", "\n">>, <<"c", "\n">>}
SentenceLengths == {1, 2}
Sentences == UNION {[1 .. n -> DOMAIN TokenText] : n \in SentenceLengths}

\* zip(a, b) stops at the shorter
ZipLen(a, b) == Min(Len(a), Len(b))

\* lines 640-645: what the loop over the tokens from token i on appends to
\* special_idxs (i counts from 1 here, from 0 in the code)
RECURSIVE MatchedFromNoBreak(_, _, _)
MatchedFromNoBreak(word, sentence, i) ==
    IF i > Len(sentence) THEN <<>>
    ELSE IF StartsWith(word, Strip(decode(sentence[i])))
         THEN <<i - 2>> \o MatchedFromNoBreak(word, sentence, i + 1)
         ELSE MatchedFromNoBreak(word, sentence, i + 1)
RECURSIVE MatchedFrom(_, _, _)
MatchedFrom(word, sentence, i) ==
    IF i > Len(sentence) THEN <<>>
    ELSE IF StartsWith(word, Strip(decode(sentence[i])))
         THEN <<i - 2>>
         ELSE MatchedFrom(word, sentence, i + 1)

\* lines 619-636: the suite and the word list are loaded, aligned line by line
InitPpl ==
    /\ HeapInit /\ probe_losses = LossValues
    /\ FrameInit
    /\ GroupIdle
    /\ PipelineIdle
    /\ args_block_size = 0 /\ model_max_length = 0 /\ block_size = 0 /\ bs_pc = "done"
    /\ \E n \in 1 .. MaxSuite :
          /\ m_words \in [1 .. n -> TargetWords]
          /\ m_sentences \in [1 .. n -> Sentences]
    /\ m_pc = "match"
    /\ m_k = 1
    /\ special_idxs = <<>>
    /\ nlls = <<>>

\* lines 638-646: one pair of the first loop
PplMatch ==
    /\ m_pc = "match"
    /\ m_k <= ZipLen(m_words, m_sentences)
    /\ LET idxs == MatchedFrom(m_words[m_k], m_sentences[m_k], 1)
           found_match == idxs # <<>>
       IN  /\ special_idxs' = special_idxs \o idxs
           /\ IF ~found_match
              THEN m_pc' = "assert_failed" /\ m_k' = m_k
              ELSE IF m_k + 1 <= ZipLen(m_words, m_sentences)
                   THEN m_pc' = "match" /\ m_k' = m_k + 1
                   ELSE m_pc' = "surprisal" /\ m_k' = 1
    /\ UNCHANGED <<m_words, m_sentences, nlls>>

\* lines 649-661: one sentence of the second loop; surprisals has one entry
\* per token but the first, and a negative index counts from its end
PplSurprisal ==
    /\ m_pc = "surprisal"
    /\ m_k <= ZipLen(m_sentences, special_idxs)
    /\ LET n == Len(m_sentences[m_k]) - 1
           token_idx == special_idxs[m_k]
           at == IF token_idx < 0 THEN token_idx + n ELSE token_idx
       IN  IF at \in 0 .. n - 1
           THEN /\ nlls' = Append(nlls, [sentence |-> m_k, at |-> at])
                /\ m_k' = m_k + 1
                /\ m_pc' = "surprisal"
           ELSE /\ m_pc' = "index_error"
                /\ UNCHANGED <<nlls, m_k>>
    /\ UNCHANGED <<m_words, m_sentences, special_idxs>>

\* line 662
PplMean ==
    /\ m_pc = "surprisal"
    /\ m_k > ZipLen(m_sentences, special_idxs)
    /\ m_pc' = "done"
    /\ UNCHANGED <<m_words, m_sentences, m_k, special_idxs, nlls>>

NextPpl ==
    (PplMatch \/ PplSurprisal \/ PplMean)
        /\ UNCHANGED <<heap_vars, search_vars, group_vars, pipeline_vars, block_vars>>

SpecPpl == InitPpl /\ [][NextPpl]_vars

\* ===================================================================== claims
SearchDone == spc = "done"
StepTaken == num_steps' = num_steps + 1

\* C1: the number of optimization steps never exceeds max_steps; at return it
\* is below max_steps only if the last loss was at or below stopping_loss, and
\* no step is ever taken once a loss at or below stopping_loss has been seen
\* (so such a loss before the cap always gives fewer steps).
C1_StepsBounded ==
    /\ [](/\ num_steps <= max_num_steps
          /\ (SearchDone /\ num_steps < max_num_steps)
                => (num_steps >= 1 /\ loss <= stopping_loss))
    /\ [][StepTaken => (loss > stopping_loss /\ num_steps < max_num_steps)]_vars

\* C1 witnesses: a search that stopped early on the loss, after several steps.
C1_Witness ==
    SearchDone /\ num_steps > 1 /\ num_steps < max_num_steps /\ loss <= stopping_loss

ConstantProbeSteps(c, maxp, maxn) ==
    IF c <= stopping_loss THEN Min(1, maxn)
    ELSE Min(maxn, maxp + 1 + (IF c < INITIAL_LOSS - PATIENCE_DELTA THEN 1 ELSE 0))

C3_EarlySuccess ==
    [][(spc = "loop" /\ num_steps = 1 /\ loss <= stopping_loss)
        => (spc' = "done" /\ num_steps' = 1 /\ val' = val /\ ret' = z_prime)]_vars

\* C3 witness: returned after one step whose loss was already low enough.
C3_Witness ==
    SearchDone /\ num_steps = 1 /\ loss <= stopping_loss /\ val[z] = 1

\* C4 (as claimed): the running minimum is the smallest loss so far, and a
\* loss lower than it by at least 0.01 resets the patience counter.
C4_Original ==
    [][StepTaken =>
        /\ min_loss' = Min(min_loss, loss')
        /\ IF min_loss - loss' >= PATIENCE_DELTA
           THEN curr_patience' = 0
           ELSE curr_patience' = curr_patience + 1]_vars

\* C4 (amended): a loss lower than the running minimum by strictly more than
\* 0.01 resets the patience counter and becomes the running minimum; any other
\* loss adds one to the counter and leaves the running minimum as it was.
C4_PatienceRule ==
    [][StepTaken =>
        IF min_loss - loss' > PATIENCE_DELTA
        THEN curr_patience' = 0 /\ min_loss' = loss'
        ELSE curr_patience' = curr_patience + 1 /\ min_loss' = min_loss]_vars

\* C4 witness: a step whose loss was exactly 0.01 below the running minimum
\* was counted as non-improving.
C4_Witness ==
    /\ num_steps >= 2
    /\ min_loss - loss = PATIENCE_DELTA
    /\ curr_patience >= 1

\* C5: a call changes no tensor but the one passed in: the probe's parameter
\* values stay as they were, the optimizer holds the passed tensor only, each
\* step updates that tensor in place, and the tensor returned is that same one.
C5_OnlyInputMutated ==
    /\ \A t \in Tensors \ {z} : val[t] = 0
    /\ spc # "idle" => (opt_params = {z} /\ z_prime = z /\ val[z] = num_steps)
    /\ SearchDone => ret = z

\* C5 witness: a search that updated the passed tensor and returned it.
C5_Witness ==
    SearchDone /\ ret = HIDDEN /\ val[HIDDEN] > 1 /\ val[PROBE_W] = 0 /\ grad[PROBE_W] > 1

GroupDone == gt_pc = "done"
GroupInput == Chain(gt_examples["input_ids"])
GroupBlocks == gt_result["input_ids"]

C6_NextTokenAlignment ==
    \A j \in 1 .. Len(cached_z_primes) :
        LET rows == cached_z_primes[j].rows
            labels == cached_input_ids[j]
            examples == (Len(labels) + 1) \div seq_len
        IN  /\ Len(rows) = examples * (seq_len - 1)
            /\ Len(labels) = Len(rows)
            /\ \A r \in 1 .. Len(rows) :
                  rows[r][2] >= 1 /\ labels[r] = <<rows[r][1], rows[r][2] + 1>>

Phases == {"train_probe", "train_lm", "gen_xfacts", "xfact_training"}
SetModeLabels == {"set_mode_probe", "set_mode_lm", "set_mode_xfacts"}

\* The order of main's statements in a training run.
MainOrder ==
    {<<"start", "set_mode_probe">>, <<"set_mode_probe", "train_probe">>,
     <<"train_probe", "set_mode_lm">>, <<"set_mode_lm", "train_lm">>,
     <<"train_lm", "set_mode_xfacts">>, <<"set_mode_xfacts", "gen_xfacts">>,
     <<"gen_xfacts", "xfact_training">>, <<"gen_xfacts", "raised">>,
     <<"xfact_training", "set_mode_probe">>, <<"xfact_training", "save">>,
     <<"save", "done">>}

\* C7: a training run makes exactly 2 outer iterations; in each the phases
\* run in the order Probe Trainer, Language-Model Trainer, Counterfactual
\* Dataset Builder, Head Retrainer, one phase's frame being idle again before
\* the next phase starts; the Head Retrainer works on the dataset built in its
\* own iteration.
C7_PhaseOrder ==
    /\ [][(~eval_only /\ pc' # pc) => <<pc, pc'>> \in MainOrder]_vars
    /\ [][(pc = "xfact_training" /\ pc' # pc) => iteration' = iteration + 1]_vars
    /\ [](~eval_only =>
            /\ pc \in Phases \cup SetModeLabels => iteration < NUM_ITERATIONS
            /\ pc \in {"save", "done"} => iteration = NUM_ITERATIONS
            /\ pc \notin {"train_probe", "train_lm"} => t_pc = "idle"
            /\ pc # "gen_xfacts" => (b_pc = "idle" /\ spc = "idle")
            /\ pc # "xfact_training" => x_pc = "idle"
            /\ x_pc # "idle" => xfact_dataset.iteration = iteration)

\* C7 witness: the run ended after the Head Retrainer of the second iteration
\* had worked through the dataset built in that iteration.
C7_Witness ==
    /\ pc = "done" /\ ~eval_only /\ iteration = NUM_ITERATIONS
    /\ xfact_dataset.iteration = NUM_ITERATIONS - 1
    /\ x_opt_steps > 0

\* C8 (as claimed): every one of the four phases is entered right after an
\* assignment to lm_mode.
C8_Original ==
    [][(pc' \in Phases /\ pc' # pc) => pc \in SetModeLabels]_vars

\* C8 (amended): lm_mode is assigned only by main's statements between the
\* phases (and by _measure_ppl in an evaluation run), never while a phase
\* runs; it is False throughout the Probe Trainer and the Counterfactual
\* Dataset Builder and True throughout the Language-Model Trainer; it is set
\* right before each of these three phases, and not before the Head Retrainer,
\* which runs with the False the builder was given.
C8_ModeFlag ==
    /\ [](/\ pc \in {"train_probe", "gen_xfacts", "xfact_training"} => lm_mode = FALSE
          /\ pc = "train_lm" => lm_mode = TRUE)
    /\ [][lm_mode' # lm_mode => pc \in SetModeLabels \cup {"measure_ppl"}]_vars
    /\ [][(pc' \in Phases \ {"xfact_training"} /\ pc' # pc) => pc \in SetModeLabels]_vars
    /\ [][(pc' = "xfact_training" /\ pc' # pc) => (pc = "gen_xfacts" /\ lm_mode' = lm_mode)]_vars

\* C8 witness: the Head Retrainer of the second iteration runs, the flag False.
C8_Witness ==
    pc = "xfact_training" /\ x_pc = "loop" /\ iteration = 1 /\ lm_mode = FALSE

\* C9: the Head Retrainer makes 3 epochs over the dataset with one optimizer
\* step per item, and a step changes the value of lm_head only.
C9_HeadOnly ==
    /\ [](x_pc = "done" =>
            /\ x_epoch = XFACT_EPOCHS
            /\ x_opt_steps = XFACT_EPOCHS * Len(xfact_dataset.pairs))
    /\ [][x_pc = "loop" =>
            /\ \A t \in Tensors \ {LM_HEAD_W} : val'[t] = val[t]
            /\ val'[LM_HEAD_W] = val[LM_HEAD_W] + 1
            /\ x_opt_steps' = x_opt_steps + 1
            /\ x_epoch' * Len(xfact_dataset.pairs) + x_step' = x_opt_steps']_vars

\* C9 witness: the Head Retrainer has finished over a dataset of several items
\* while the probe held a gradient the builder's searches had left.
C9_Witness ==
    /\ x_pc = "done"
    /\ Len(xfact_dataset.pairs) > 1
    /\ x_opt_steps = XFACT_EPOCHS * Len(xfact_dataset.pairs)
    /\ grad[PROBE_W] > 0

\* C11 (as claimed): within a call of train_with_prepped_dataset the number
\* of optimizer steps made never exceeds args.max_train_steps.
C11_StepsWithinMax ==
    t_pc # "idle" => completed_steps <= max_train_steps

BuilderLooping == b_pc \in {"batch", "call", "search", "stack"}
BatchesOfProbe == CeilDiv(probe_n, batch_size)

\* C13 (as claimed): when the builder's loops have ended, every batch it
\* processed has given the cache one entry for each of the three classes.
C13_Original ==
    b_pc = "stack" =>
        \A k \in 0 .. ((Len(cached_z_primes) - 1) \div NumLabels) :
            \A c \in Labels : \E j \in 1 .. Len(cached_z_primes) :
                j = k * NumLabels + c + 1 /\ cached_z_primes[j].target = c

\* C13 (amended): the builder searches the classes 0, 1, 2 of each batch in
\* order and stops as soon as the number of searches reaches
\* args.max_train_steps, also in the middle of a batch: it makes
\* min(3 * batches, max_train_steps) searches, so only the last batch it
\* processed can lack its higher classes.
C13_ClassesUntilBudget ==
    /\ BuilderLooping =>
        /\ \A j \in 1 .. Len(cached_z_primes) :
              cached_z_primes[j].target = (j - 1) % NumLabels
        /\ Len(cached_z_primes) = b_completed
        /\ b_completed <= Min(NumLabels * BatchesOfProbe, max_train_steps)
    /\ b_pc = "stack" =>
        Len(cached_z_primes) = Min(NumLabels * BatchesOfProbe, max_train_steps)

\* C13 witness: the loops ended on the budget with a batch searched for
\* class 0 only.
C13_Witness ==
    /\ b_pc = "stack"
    /\ Len(cached_z_primes) = max_train_steps
    /\ Len(cached_z_primes) % NumLabels = 1
    /\ Len(cached_z_primes) > NumLabels

\* C15 (as claimed): the tensor a search for any class is started on holds the
\* batch's hidden states as line 561 extracted them: no optimizer step has
\* been applied to it.
C15_SearchFromOriginal ==
    (b_pc = "search" /\ spc = "loop" /\ num_steps = 0) => val[z] = 0

\* C16 (as claimed): while the builder runs, no step changes the values of
\* a tensor that an entry of the cache holds.
C16_CacheStable ==
    [][BuilderLooping =>
        \A j \in 1 .. Len(cached_z_primes) :
            val'[cached_z_primes[j].tensor] = val[cached_z_primes[j].tensor]]_vars

\* C17 (as claimed): when a Probe Trainer or Language-Model Trainer phase
\* starts its first batch, no parameter of the model holds a gradient.
C17_CleanGradients ==
    (pc \in {"train_probe", "train_lm"} /\ t_pc = "batch"
        /\ epoch = 0 /\ step = 0 /\ completed_steps = 0)
        => \A t \in Params : grad[t] = 0

\* C14 (as claimed): the block size _train_lm settles on never exceeds the
\* tokenizer's model_max_length: it is min(model_max_length, 1024) when
\* --block_size is not given and min(args.block_size, model_max_length) when
\* it is.
C14_BlockWithinModel ==
    bs_pc = "done" /\ model_max_length > 0 =>
        /\ block_size <= model_max_length
        /\ block_size = IF args_block_size = NONE
                        THEN Min(model_max_length, LM_BLOCK_CAP)
                        ELSE Min(args_block_size, model_max_length)

IsPrefix(p, w) == \E n \in 0 .. Len(w) : SubSeq(w, 1, n) = p
PrefixTokens(k) ==
    {i \in 1 .. Len(m_sentences[k]) : IsPrefix(Strip(decode(m_sentences[k][i])), m_words[k])}

\* C12: for every example paired with a target word, if no token of the
\* example decodes to a prefix of the word the run stops on the assertion
\* at that example with no surprisal computed; otherwise exactly one index
\* is recorded for the example (that of its first such token, shifted by
\* one), and no surprisal is computed before every example has its index.
C12_MatchOrAbort ==
    m_pc # "idle" =>
        /\ m_pc = "assert_failed" =>
              /\ PrefixTokens(m_k) = {}
              /\ Len(special_idxs) = m_k - 1
        /\ m_pc = "match" => Len(special_idxs) = m_k - 1
        /\ m_pc \in {"surprisal", "done", "index_error"} =>
              Len(special_idxs) = Len(m_sentences)
        /\ \A k \in 1 .. Len(special_idxs) :
              /\ PrefixTokens(k) # {}
              /\ special_idxs[k] + 2 \in PrefixTokens(k)
              /\ \A i \in PrefixTokens(k) : special_idxs[k] + 2 <= i
        /\ m_pc \in {"match", "assert_failed"} => nlls = <<>>
        /\ m_pc = "done" => Len(nlls) = Len(m_sentences)

\* C12 witness: the first example got its index from its second token, the
\* second example has no matching token and the run stopped there.
C12_Witness ==
    /\ m_pc = "assert_failed"
    /\ m_k = 2
    /\ special_idxs = <<0>>
    /\ nlls = <<>>

====
